---- MODULE Spec2Model ----
(***************************************************************************)
(* The KTA site backend (Express + JSON files): the request handlers of     *)
(* src/server.js and of the later build in src/unnamed/part_000, as a state  *)
(* machine over the five persisted collections.                             *)
(*                                                                         *)
(* Node runs every handler to completion on one thread, so a handler is one *)
(* atomic action, except where it awaits: signup reads the User collection, *)
(* awaits bcrypt.hash and only then writes, so it is two actions with the   *)
(* collection it read carried in between.  signin awaits bcrypt.compare     *)
(* between its read and its response and writes nothing; it is one action    *)
(* taken at its read.                                                       *)
(***************************************************************************)
EXTENDS Integers, Sequences, FiniteSets, TLC

(* ------------------------------ bounds --------------------------------- *)
NumClients == 2    \* requests that can be awaiting bcrypt at once
MaxTime == 8       \* the clock runs over 0..MaxTime days
SiteRoom == 1      \* records a collection holds in the whole-site runs
MaxLikes == 1      \* likes a message gets
EventRoom == 2     \* events stored at once in the event runs
RecordRoom == 2    \* records a collection holds in the id runs
MsgRoom == 2       \* messages stored at once in the message runs
LikeRoom == 3      \* like requests per message in the message runs
FaqRoom == 22      \* messages stored at once in the FAQ runs
FaultRoom == 1     \* files that are unreadable, or unwritable, at once
SeedDays == 1      \* days the clock runs over in the seeding runs

(* ------------------------- program constants --------------------------- *)
TokenTTL == 7      \* expiresIn: '7d'
FaqLimit == 20     \* .slice(0, 20)

BootEmail == "abhinav.reddivari@gmail.com"
JWT_SECRET == "your-secret-key-change-this"
OtherKey == "some-other-key"

Members == {"a@x.com", "b@x.com"}
Emails == {BootEmail} \cup Members
Clients == 1..NumClients
Builds == {"server.js", "part_000"}

(* ------------------------------ requests ------------------------------- *)
NoPw == "<undefined>"      \* a body without a password field
Passwords == {"pw1", "pw2", "admin123"}
\* The profiles a signup body carries: name, phone, password.
Profiles ==
  { [name |-> "Asha", phone |-> "+601", password |-> "pw1"],
    [name |-> "Ravi", phone |-> "+602", password |-> "pw2"],
    [name |-> "Asha", phone |-> "+601", password |-> NoPw] }

(* ------------------------------ bcrypt --------------------------------- *)
\* bcrypt.hash(pw, 10): an opaque digest, never equal to a plaintext.
Hash(pw) == [bcrypt |-> pw]
\* bcrypt.hash / bcrypt.compare reject ("data and salt arguments required")
\* when the data is undefined; the handlers' catch turns that into a 500.
BcryptThrows(pw) == pw = NoPw
Compare(pw, digest) == digest = Hash(pw)

(* ------------------------------ tokens --------------------------------- *)
NoToken == [kind |-> "none", email |-> "", iat |-> 0, exp |-> 0, key |-> ""]
Garbage == [kind |-> "garbage", email |-> "", iat |-> 0, exp |-> 0, key |-> ""]
\* Variant: tokens signed with a key other than the one verification uses.
JwtSignOther(e, key, t) ==
  [kind |-> "jwt", email |-> e, iat |-> t, exp |-> t + TokenTTL, key |-> OtherKey]

\* jwt.sign({ email }, key, { expiresIn: '7d' }) at time t
JwtSign(e, key, t) ==
  [kind |-> "jwt", email |-> e, iat |-> t, exp |-> t + TokenTTL, key |-> key]
\* Variant: verification with ignoreExpiration.
JwtVerifyForever(t, clock) == t.kind = "jwt" /\ t.key = JWT_SECRET

\* jwt.verify(token, JWT_SECRET): malformed, wrongly signed and expired
\* (clock >= exp) tokens are errors.
JwtVerify(t, clock) == t.kind = "jwt" /\ t.key = JWT_SECRET /\ clock < t.exp

VARIABLES
  build,          \* which of the two builds of the server is running
  now,            \* the clock, in days
  users,          \* users.json: email -> User
  events,         \* events.json: sequence of Event
  registrations,  \* registrations.json: event id -> sequence of emails
  gallery,        \* gallery.json: sequence of items
  messages,       \* messages.json: sequence of messages
  pend,           \* per client: the signup awaiting bcrypt.hash, or idle
  session,        \* per identity: what its last successful signin returned
  signedUp,       \* history: emails whose signup succeeded, not deleted since
  settled,        \* history: signedUp, and since then no signup that had read
                  \*   the collection earlier has written it
  granted,        \* history: emails a grant-admin was executed for, on
                  \*   behalf of an identity that was an admin then
  likeCalls,      \* history: message id -> like requests answered 200 since
                  \*   a message of that id was last deleted
  lost,           \* the files readData cannot read or parse (it returns null)
  failing         \* the files writeData cannot write (it returns false)

vars == <<build, now, users, events, registrations, gallery, messages,
          pend, session, signedUp, settled, granted, likeCalls, lost, failing>>
hist == <<signedUp, settled, granted, likeCalls>>

(* --------------------------- the collections --------------------------- *)
Db == [users |-> users, events |-> events, registrations |-> registrations,
       gallery |-> gallery, messages |-> messages]

Err(msg) == [error |-> msg]
Msg(msg) == [message |-> msg]

\* A handler's outcome: the collections as it leaves them and its response.
Reply(status, body) == [db |-> Db, status |-> status, body |-> body]
\* writeData of the changed collections, then the response: a failed write
\* leaves the file as it was, and its return value is not looked at.
Saved(db, status, body) ==
  [db |-> [f \in DOMAIN db |-> IF f \in failing THEN Db[f] ELSE db[f]],
   status |-> status, body |-> body]

\* readData(file) returned null
Lost(f) == f \in lost
\* res.json(null)
Null == [null |-> TRUE]
\* A TypeError on the null collection, thrown out of the handler: Express
\* answers 500.
Crash == Reply(500, Err("Internal Server Error"))

Idle == [op |-> "idle"]
NoSession == [token |-> NoToken]

BootUser ==
  [name |-> "Abhinav Reddivari", email |-> BootEmail, phone |-> "+60123456789",
   password |-> Hash("admin123"), isAdmin |-> TRUE, memberSince |-> 0]

SeedEvent == [id |-> 1, name |-> "Sankranti Festival 2026", registrations |-> 0]
SeedPhoto == [id |-> 1, title |-> "Sankranti 2025", uploadedBy |-> "admin"]

\* initializeDataFiles() on an empty data directory
InitBuild(b) ==
  /\ build = b
  /\ now = 0
  /\ users = (BootEmail :> BootUser)
  /\ events = <<SeedEvent>>
  /\ registrations = <<>>
  /\ gallery = IF build = "server.js" THEN <<SeedPhoto>> ELSE <<>>
  /\ messages = <<>>
  /\ pend = [c \in Clients |-> Idle]
  /\ session = [e \in Emails |-> NoSession]
  /\ signedUp = {}
  /\ settled = {}
  /\ granted = {}
  /\ likeCalls = <<>>
  /\ lost = {}
  /\ failing = {}

Init == InitBuild("part_000")
InitAny == \E b \in Builds : InitBuild(b)

(* ------------------------------ middleware ----------------------------- *)
\* if (users[email]) / if (!users[email]): the key is present
UserExists(u, email) == email \in DOMAIN u

\* Variant: a token is accepted only while its identity is stored.
authenticateTokenStored(t) ==
  IF t.kind = "none"
  THEN [status |-> 401, body |-> Err("Access token required"), user |-> ""]
  ELSE IF ~JwtVerify(t, now) \/ ~UserExists(users, t.email)
  THEN [status |-> 403, body |-> Err("Invalid token"), user |-> ""]
  ELSE [status |-> 0, body |-> Msg(""), user |-> t.email]

\* authenticateToken: 401 without a token, 403 when jwt.verify fails,
\* otherwise req.user is the payload and next() runs (status 0 here).
authenticateToken(t) ==
  IF t.kind = "none"
  THEN [status |-> 401, body |-> Err("Access token required"), user |-> ""]
  ELSE IF ~JwtVerify(t, now)
  THEN [status |-> 403, body |-> Err("Invalid token"), user |-> ""]
  ELSE [status |-> 0, body |-> Msg(""), user |-> t.email]

\* Variant: the admin check looks for the user only, not for its flag.
verifyAdminStored(u, email) == UserExists(u, email)

\* verifyAdmin: users[req.user.email] must exist with isAdmin true.
verifyAdmin(u, email) == UserExists(u, email) /\ u[email].isAdmin

\* The chain in front of a route: [authenticateToken, verifyAdmin] for an
\* admin route, [authenticateToken] for an authenticated one.
Gate(t, adminOnly) ==
  LET a == authenticateToken(t) IN
  IF a.status # 0 THEN a
  ELSE IF adminOnly /\ Lost("users")
       THEN [status |-> 500, body |-> Err("Internal Server Error"), user |-> a.user]
  ELSE IF adminOnly /\ ~verifyAdmin(users, a.user)
       THEN [status |-> 403, body |-> Err("Admin access required"), user |-> a.user]
       ELSE a

\* For the history variables: the request carries a token the server signed,
\* not yet expired, of an identity that is stored with the admin flag.
IsAdminNow(t) ==
  /\ t.kind = "jwt" /\ t.key = JWT_SECRET /\ now < t.iat + TokenTTL
  /\ t.email \in DOMAIN users /\ users[t.email].isAdmin

\* A handler that ran to its response r leaves the collections as r.db.
Apply(r) ==
  /\ users' = r.db.users
  /\ events' = r.db.events
  /\ registrations' = r.db.registrations
  /\ gallery' = r.db.gallery
  /\ messages' = r.db.messages

(* ------------------------------ auth routes ---------------------------- *)
\* Variant: the stored record is returned as it is.
PublicProfileAll(u) == u

PublicProfile(u) ==
  [name |-> u.name, email |-> u.email, phone |-> u.phone, isAdmin |-> u.isAdmin]

\* Variant: new accounts are created as admins.
NewUserAdmin(name, email, phone, digest) ==
  [name |-> name, email |-> email, phone |-> phone, password |-> digest,
   isAdmin |-> TRUE, memberSince |-> now]

NewUser(name, email, phone, digest) ==
  [name |-> name, email |-> email, phone |-> phone, password |-> digest,
   isAdmin |-> FALSE, memberSince |-> now]

\* Variant: signup without the look-up of the key.
signupCheckNone(email) == Reply(0, Msg(""))

\* POST /api/auth/signup up to its await: the User collection is read and an
\* existing key is answered 400.
signupCheck(email) ==
  IF Lost("users") THEN Reply(500, Err("Server error"))
  ELSE IF UserExists(users, email) THEN Reply(400, Err("User already exists"))
  ELSE Reply(0, Msg(""))

\* Otherwise the request waits for bcrypt.hash, holding the collection it
\* read.
SignupBegin(c, email, p) ==
  /\ pend[c].op = "idle"
  /\ pend' = IF signupCheck(email).status # 0 THEN pend
             ELSE [pend EXCEPT ![c] =
                     [op |-> "signup", users |-> users, email |-> email,
                      profile |-> p]]
  /\ UNCHANGED <<build, lost, failing, now, users, events, registrations, gallery, messages,
                 session, hist>>

\* Variant: the write puts the new User into the collection as it is stored
\* at the time of the write.
signupWriteFresh(q) ==
  IF BcryptThrows(q.profile.password)
  THEN Reply(500, Err("Server error"))
  ELSE Saved([Db EXCEPT !.users =
                (q.email :> NewUser(q.profile.name, q.email, q.profile.phone,
                                    Hash(q.profile.password))) @@ users],
             200, [message |-> "Account created successfully", email |-> q.email])

\* The rest of the signup handler, once bcrypt.hash has settled: the new User
\* is put into the collection read before the await and that collection is
\* written; a rejected hash is caught and answered 500.
signupWrite(q) ==
  IF BcryptThrows(q.profile.password)
  THEN Reply(500, Err("Server error"))
  ELSE Saved([Db EXCEPT !.users =
                (q.email :> NewUser(q.profile.name, q.email, q.profile.phone,
                                    Hash(q.profile.password))) @@ q.users],
             200, [message |-> "Account created successfully", email |-> q.email])

SignupFinish(c) ==
  /\ pend[c].op = "signup"
  /\ LET q == pend[c]
         r == signupWrite(q)
         ok == r.status = 200
     IN /\ Apply(r)
        /\ pend' = [pend EXCEPT ![c] = Idle]
        /\ signedUp' = IF ok THEN signedUp \cup {q.email} ELSE signedUp
        /\ settled' = IF ok THEN {e \in settled : e \in DOMAIN q.users} \cup {q.email}
                      ELSE settled
  /\ UNCHANGED <<build, lost, failing, now, session, granted, likeCalls>>

\* POST /api/auth/signin
signin(email, password) ==
  IF Lost("users") THEN Reply(500, Err("Server error"))
  ELSE IF ~UserExists(users, email) THEN Reply(400, Err("Invalid credentials"))
  ELSE IF BcryptThrows(password) THEN Reply(500, Err("Server error"))
  ELSE IF ~Compare(password, users[email].password)
       THEN Reply(400, Err("Invalid credentials"))
  ELSE Reply(200, [token |-> JwtSign(users[email].email, JWT_SECRET, now),
                   user |-> PublicProfile(users[email])])

Signin(email, password) ==
  /\ LET r == signin(email, password) IN
       /\ Apply(r)
       /\ session' = IF r.status = 200 THEN [session EXCEPT ![email] = r.body]
                     ELSE session
  /\ UNCHANGED <<build, lost, failing, now, pend, hist>>

\* GET /api/auth/me
me(t) ==
  LET g == Gate(t, FALSE) IN
  IF g.status # 0 THEN Reply(g.status, g.body)
  ELSE IF Lost("users") THEN Crash
  ELSE IF ~UserExists(users, g.user) THEN Reply(404, Err("User not found"))
  ELSE Reply(200, PublicProfile(users[g.user]))

Me(t) ==
  /\ Apply(me(t))
  /\ UNCHANGED <<build, lost, failing, now, pend, session, hist>>

(* ------------------------------ users routes --------------------------- *)
ListedProfile(u) ==
  [name |-> u.name, email |-> u.email, phone |-> u.phone, isAdmin |-> u.isAdmin,
   memberSince |-> u.memberSince]

\* GET /api/users
listUsers(t) ==
  LET g == Gate(t, TRUE) IN
  IF g.status # 0 THEN Reply(g.status, g.body)
  ELSE Reply(200, [users |-> {ListedProfile(users[e]) : e \in DOMAIN users}])

ListUsers(t) ==
  /\ Apply(listUsers(t))
  /\ UNCHANGED <<build, lost, failing, now, pend, session, hist>>

\* Variant: grant-admin sets the flag of every stored user.
grantAdminAll(t, email) ==
  LET g == Gate(t, TRUE) IN
  IF g.status # 0 THEN Reply(g.status, g.body)
  ELSE IF ~UserExists(users, email) THEN Reply(404, Err("User not found"))
  ELSE Saved([Db EXCEPT !.users = [e \in DOMAIN users |->
                                     [users[e] EXCEPT !.isAdmin = TRUE]]],
             200, Msg("Admin access granted"))

\* POST /api/users/grant-admin
grantAdmin(t, email) ==
  LET g == Gate(t, TRUE) IN
  IF g.status # 0 THEN Reply(g.status, g.body)
  ELSE IF ~UserExists(users, email) THEN Reply(404, Err("User not found"))
  ELSE Saved([Db EXCEPT !.users = [users EXCEPT ![email].isAdmin = TRUE]],
             200, Msg("Admin access granted"))

GrantAdmin(t, email) ==
  /\ LET r == grantAdmin(t, email) IN
       /\ Apply(r)
       /\ granted' = IF r.status = 200 /\ IsAdminNow(t) THEN granted \cup {email}
                     ELSE granted
  /\ UNCHANGED <<build, lost, failing, now, pend, session, signedUp, settled, likeCalls>>

\* Variant: revoke-admin without the primary admin's exemption.
revokeAdminAny(t, email) ==
  LET g == Gate(t, TRUE) IN
  IF g.status # 0 THEN Reply(g.status, g.body)
  ELSE IF ~UserExists(users, email) THEN Reply(404, Err("User not found"))
  ELSE Saved([Db EXCEPT !.users = [users EXCEPT ![email].isAdmin = FALSE]],
             200, Msg("Admin access revoked"))

\* POST /api/users/revoke-admin
revokeAdmin(t, email) ==
  LET g == Gate(t, TRUE) IN
  IF g.status # 0 THEN Reply(g.status, g.body)
  ELSE IF email = BootEmail
       THEN Reply(403, Err("Cannot revoke primary admin access"))
  ELSE IF ~UserExists(users, email) THEN Reply(404, Err("User not found"))
  ELSE Saved([Db EXCEPT !.users = [users EXCEPT ![email].isAdmin = FALSE]],
             200, Msg("Admin access revoked"))

RevokeAdmin(t, email) ==
  /\ Apply(revokeAdmin(t, email))
  /\ UNCHANGED <<build, lost, failing, now, pend, session, hist>>

\* Variant: delete-user without the primary admin's exemption.
deleteUserAny(t, email) ==
  LET g == Gate(t, TRUE) IN
  IF g.status # 0 THEN Reply(g.status, g.body)
  ELSE Saved([Db EXCEPT !.users = [e \in DOMAIN users \ {email} |-> users[e]]],
             200, Msg("User deleted"))

\* DELETE /api/users/:email ("delete users[email]" of a missing key does
\* nothing, and the collection is written and answered 200 all the same)
deleteUser(t, email) ==
  LET g == Gate(t, TRUE) IN
  IF g.status # 0 THEN Reply(g.status, g.body)
  ELSE IF email = BootEmail THEN Reply(403, Err("Cannot delete primary admin"))
  ELSE Saved([Db EXCEPT !.users = [e \in DOMAIN users \ {email} |-> users[e]]],
             200, Msg("User deleted"))

DeleteUser(t, email) ==
  /\ LET r == deleteUser(t, email) IN
       /\ Apply(r)
       /\ signedUp' = IF r.status = 200 THEN signedUp \ {email} ELSE signedUp
       /\ settled' = IF r.status = 200 THEN settled \ {email} ELSE settled
  /\ UNCHANGED <<build, lost, failing, now, pend, session, granted, likeCalls>>

\* GET /api/stats
stats(t) ==
  LET g == Gate(t, TRUE) IN
  IF g.status # 0 THEN Reply(g.status, g.body)
  ELSE IF Lost("events") \/ Lost("gallery") \/ Lost("messages") THEN Crash
  ELSE Reply(200, [totalMembers |-> Cardinality(DOMAIN users),
                   totalEvents |-> Len(events),
                   totalPhotos |-> Len(gallery),
                   unreadMessages |->
                     Cardinality({i \in 1..Len(messages) : ~messages[i].read})])

Stats(t) ==
  /\ Apply(stats(t))
  /\ UNCHANGED <<build, lost, failing, now, pend, session, hist>>

(* ------------------------------ records -------------------------------- *)
\* { ...a, ...b }: b's fields over a's
Merge(a, b) ==
  [k \in DOMAIN a \cup DOMAIN b |-> IF k \in DOMAIN b THEN b[k] ELSE a[k]]

Max(S) == CHOOSE x \in S : \A y \in S : y <= x
Min(S) == CHOOSE x \in S : \A y \in S : x <= y

\* coll.length > 0 ? Math.max(...coll.map(r => r.id)) + 1 : 1
NextId(coll) ==
  IF Len(coll) > 0 THEN Max({coll[i].id : i \in 1..Len(coll)}) + 1 ELSE 1

\* coll.findIndex(r => r.id === id): the first match, 0 for none
FindIndex(coll, id) ==
  LET hits == {i \in 1..Len(coll) : coll[i].id = id} IN
  IF hits = {} THEN 0 ELSE Min(hits)

\* coll.filter(r => r.id !== id)
RECURSIVE Without(_, _)
Without(coll, id) ==
  IF coll = <<>> THEN <<>>
  ELSE IF Head(coll).id = id THEN Without(Tail(coll), id)
  ELSE <<Head(coll)>> \o Without(Tail(coll), id)

\* Variant: the look-up finds nothing.
IncludesNone(arr, x) == FALSE

\* arr.includes(x)
Includes(arr, x) == \E i \in 1..Len(arr) : arr[i] = x

(* ------------------------------ events routes -------------------------- *)
\* GET /api/events
getEvents ==
  IF Lost("events") THEN Reply(200, Null) ELSE Reply(200, [events |-> events])

GetEvents ==
  /\ Apply(getEvents)
  /\ UNCHANGED <<build, lost, failing, now, pend, session, hist>>

\* POST /api/events
createEvent(t, body) ==
  LET g == Gate(t, TRUE) IN
  IF g.status # 0 THEN Reply(g.status, g.body)
  ELSE IF Lost("events") THEN Crash
  ELSE LET newEvent == Merge(Merge([id |-> NextId(events)], body),
                             [registrations |-> 0, createdAt |-> now])
       IN Saved([Db EXCEPT !.events = Append(events, newEvent)], 200, newEvent)

CreateEvent(t, body) ==
  /\ Apply(createEvent(t, body))
  /\ UNCHANGED <<build, lost, failing, now, pend, session, hist>>

\* PUT /api/events/:id
updateEvent(t, id, body) ==
  LET g == Gate(t, TRUE)
      index == FindIndex(events, id)
  IN IF g.status # 0 THEN Reply(g.status, g.body)
     ELSE IF Lost("events") THEN Crash
     ELSE IF index = 0 THEN Reply(404, Err("Event not found"))
     ELSE LET e == Merge(events[index], body) IN
          Saved([Db EXCEPT !.events = [events EXCEPT ![index] = e]], 200, e)

UpdateEvent(t, id, body) ==
  /\ Apply(updateEvent(t, id, body))
  /\ UNCHANGED <<build, lost, failing, now, pend, session, hist>>

\* DELETE /api/events/:id
deleteEvent(t, id) ==
  LET g == Gate(t, TRUE) IN
  IF g.status # 0 THEN Reply(g.status, g.body)
  ELSE IF Lost("events") THEN Crash
  ELSE Saved([Db EXCEPT !.events = Without(events, id)], 200, Msg("Event deleted"))

DeleteEvent(t, id) ==
  /\ Apply(deleteEvent(t, id))
  /\ UNCHANGED <<build, lost, failing, now, pend, session, hist>>

\* Variant: the event's count is taken before the email is appended.
registerCountFirst(t, id) ==
  LET g == Gate(t, FALSE)
      index == FindIndex(events, id)
      regs == IF id \in DOMAIN registrations THEN registrations[id] ELSE <<>>
  IN IF g.status # 0 THEN Reply(g.status, g.body)
     ELSE IF Lost("events") THEN Crash
     ELSE IF index = 0 THEN Reply(404, Err("Event not found"))
     ELSE IF Lost("registrations") THEN Crash
     ELSE IF Includes(regs, g.user)
          THEN Reply(400, Err("Already registered for this event"))
     ELSE LET added == Append(regs, g.user)
              event == Merge(events[index], [registrations |-> Len(regs)])
          IN Saved([Db EXCEPT !.registrations = (id :> added) @@ registrations,
                              !.events = [events EXCEPT ![index] = event]],
                   200, [message |-> "Successfully registered for event",
                         event |-> event])

\* Variant: each registration starts the event's list anew.
registerAnew(t, id) ==
  LET g == Gate(t, FALSE)
      index == FindIndex(events, id)
      regs == IF id \in DOMAIN registrations THEN registrations[id] ELSE <<>>
  IN IF g.status # 0 THEN Reply(g.status, g.body)
     ELSE IF Lost("events") THEN Crash
     ELSE IF index = 0 THEN Reply(404, Err("Event not found"))
     ELSE IF Lost("registrations") THEN Crash
     ELSE IF Includes(regs, g.user)
          THEN Reply(400, Err("Already registered for this event"))
     ELSE LET added == <<g.user>>
              event == Merge(events[index], [registrations |-> Len(added)])
          IN Saved([Db EXCEPT !.registrations = (id :> added) @@ registrations,
                              !.events = [events EXCEPT ![index] = event]],
                   200, [message |-> "Successfully registered for event",
                         event |-> event])

\* Variant: the list of an event without registrations is made and written
\* before the event is looked up.
registerLazy(t, id) ==
  LET g == Gate(t, FALSE)
      index == FindIndex(events, id)
      regs == IF id \in DOMAIN registrations THEN registrations[id] ELSE <<>>
  IN IF g.status # 0 THEN Reply(g.status, g.body)
     ELSE IF Lost("events") THEN Crash
     ELSE IF index = 0
          THEN Saved([Db EXCEPT !.registrations = (id :> regs) @@ registrations],
                     404, Err("Event not found"))
     ELSE IF Lost("registrations") THEN Crash
     ELSE IF Includes(regs, g.user)
          THEN Reply(400, Err("Already registered for this event"))
     ELSE LET added == Append(regs, g.user)
              event == Merge(events[index], [registrations |-> Len(added)])
          IN Saved([Db EXCEPT !.registrations = (id :> added) @@ registrations,
                              !.events = [events EXCEPT ![index] = event]],
                   200, [message |-> "Successfully registered for event",
                         event |-> event])

\* POST /api/events/:id/register
register(t, id) ==
  LET g == Gate(t, FALSE)
      index == FindIndex(events, id)
      regs == IF id \in DOMAIN registrations THEN registrations[id] ELSE <<>>
  IN IF g.status # 0 THEN Reply(g.status, g.body)
     ELSE IF Lost("events") THEN Crash
     ELSE IF index = 0 THEN Reply(404, Err("Event not found"))
     ELSE IF Lost("registrations") THEN Crash
     ELSE IF Includes(regs, g.user)
          THEN Reply(400, Err("Already registered for this event"))
     ELSE LET added == Append(regs, g.user)
              event == Merge(events[index], [registrations |-> Len(added)])
          IN Saved([Db EXCEPT !.registrations = (id :> added) @@ registrations,
                              !.events = [events EXCEPT ![index] = event]],
                   200, [message |-> "Successfully registered for event",
                         event |-> event])

Register(t, id) ==
  /\ Apply(register(t, id))
  /\ UNCHANGED <<build, lost, failing, now, pend, session, hist>>

(* ------------------------------ gallery routes ------------------------- *)
\* GET /api/gallery
getGallery ==
  IF Lost("gallery") THEN Reply(200, Null) ELSE Reply(200, [gallery |-> gallery])

GetGallery ==
  /\ Apply(getGallery)
  /\ UNCHANGED <<build, lost, failing, now, pend, session, hist>>

\* POST /api/gallery (server.js)
addPhoto(t, body) ==
  LET g == Gate(t, TRUE) IN
  IF g.status # 0 THEN Reply(g.status, g.body)
  ELSE IF Lost("gallery") THEN Crash
  ELSE LET newPhoto == Merge(Merge([id |-> NextId(gallery)], body),
                             [uploadedBy |-> g.user, uploadedAt |-> now])
       IN Saved([Db EXCEPT !.gallery = Append(gallery, newPhoto)], 200, newPhoto)

AddPhoto(t, body) ==
  /\ build = "server.js"
  /\ Apply(addPhoto(t, body))
  /\ UNCHANGED <<build, lost, failing, now, pend, session, hist>>

\* !body[k]: the field is missing or empty
Missing(body, k) == k \notin DOMAIN body \/ body[k] = ""
\* a field kept by JSON.stringify only when it is defined
Opt(body, k, as) == IF k \in DOMAIN body THEN (as :> body[k]) ELSE <<>>

\* POST /api/gallery/upload (part_000)
uploadMedia(t, body) ==
  LET g == Gate(t, TRUE) IN
  IF g.status # 0 THEN Reply(g.status, g.body)
  ELSE IF Missing(body, "fileData") \/ Missing(body, "title")
          \/ Missing(body, "description") \/ Missing(body, "category")
       THEN Reply(400, Err("Missing required fields"))
  ELSE IF Lost("gallery") THEN Reply(500, Err("Error uploading file"))
  ELSE LET newItem ==
             [id |-> NextId(gallery), title |-> body.title,
              description |-> body.description, category |-> body.category,
              data |-> body.fileData, uploadedBy |-> g.user, uploadedAt |-> now]
             @@ Opt(body, "fileType", "type") @@ Opt(body, "mimeType", "mimeType")
       IN Saved([Db EXCEPT !.gallery = Append(gallery, newItem)], 200, newItem)

UploadMedia(t, body) ==
  /\ build = "part_000"
  /\ Apply(uploadMedia(t, body))
  /\ UNCHANGED <<build, lost, failing, now, pend, session, hist>>

\* DELETE /api/gallery/:id
deletePhoto(t, id) ==
  LET g == Gate(t, TRUE) IN
  IF g.status # 0 THEN Reply(g.status, g.body)
  ELSE IF Lost("gallery") THEN Crash
  ELSE Saved([Db EXCEPT !.gallery = Without(gallery, id)], 200,
             Msg(IF build = "server.js" THEN "Photo deleted" ELSE "Item deleted"))

DeletePhoto(t, id) ==
  /\ Apply(deletePhoto(t, id))
  /\ UNCHANGED <<build, lost, failing, now, pend, session, hist>>

(* ------------------------------ contact routes ------------------------- *)
\* POST /api/contact: part_000 also sets likes: 0
contact(body) ==
  LET newMessage ==
        Merge(Merge([id |-> NextId(messages)], body),
              IF build = "server.js" THEN [date |-> now, read |-> FALSE]
              ELSE [date |-> now, read |-> FALSE, likes |-> 0])
  IN IF Lost("messages") THEN Crash
     ELSE Saved([Db EXCEPT !.messages = Append(messages, newMessage)], 200,
                Msg("Message sent successfully"))

Contact(body) ==
  /\ Apply(contact(body))
  /\ UNCHANGED <<build, lost, failing, now, pend, session, hist>>

\* m.likes || 0
Likes(m) == IF "likes" \in DOMAIN m THEN m.likes ELSE 0

\* Variant: a sort that puts a message ahead of those with the same likes.
SortInsertAhead(sorted, m) ==
  LET ahead == {i \in 1..Len(sorted) : Likes(sorted[i]) > Likes(m)}
      n == IF ahead = {} THEN 0 ELSE Max(ahead)
  IN SubSeq(sorted, 1, n) \o <<m>> \o SubSeq(sorted, n + 1, Len(sorted))

\* messages.sort((a, b) => (b.likes || 0) - (a.likes || 0)): Array.prototype.sort
\* is stable, so a message goes behind those with at least its likes.
SortInsert(sorted, m) ==
  LET ahead == {i \in 1..Len(sorted) : Likes(sorted[i]) >= Likes(m)}
      n == IF ahead = {} THEN 0 ELSE Max(ahead)
  IN SubSeq(sorted, 1, n) \o <<m>> \o SubSeq(sorted, n + 1, Len(sorted))

RECURSIVE SortByLikes(_)
SortByLikes(ms) ==
  IF ms = <<>> THEN <<>>
  ELSE SortInsert(SortByLikes(SubSeq(ms, 1, Len(ms) - 1)), ms[Len(ms)])

FaqView(m) ==
  [id |-> m.id, likes |-> Likes(m)]
  @@ Opt(m, "name", "name") @@ Opt(m, "subject", "subject")
  @@ Opt(m, "message", "message") @@ Opt(m, "date", "date")

\* GET /api/faqs (part_000): the sort is of the array just read, which is
\* not written back
faqs ==
  LET sorted == SortByLikes(messages)
      top == SubSeq(sorted, 1, IF Len(sorted) < FaqLimit THEN Len(sorted) ELSE FaqLimit)
  IN IF Lost("messages") THEN Crash
     ELSE Reply(200, [faqs |-> [i \in 1..Len(top) |-> FaqView(top[i])]])

Faqs ==
  /\ build = "part_000"
  /\ Apply(faqs)
  /\ UNCHANGED <<build, lost, failing, now, pend, session, hist>>

\* Variant: a like marks the message as liked instead of counting.
likeOnce(id) ==
  LET index == FindIndex(messages, id) IN
  IF Lost("messages") THEN Crash
  ELSE IF index = 0 THEN Reply(404, Err("Message not found"))
  ELSE Saved([Db EXCEPT !.messages =
                [messages EXCEPT ![index] = Merge(@, [likes |-> 1])]],
             200, [likes |-> 1])

\* POST /api/faqs/:id/like (part_000)
like(id) ==
  LET index == FindIndex(messages, id) IN
  IF Lost("messages") THEN Crash
  ELSE IF index = 0 THEN Reply(404, Err("Message not found"))
  ELSE LET n == Likes(messages[index]) + 1 IN
       Saved([Db EXCEPT !.messages =
                [messages EXCEPT ![index] = Merge(@, [likes |-> n])]],
             200, [likes |-> n])

\* The like requests counted for a message id.
Calls(id) == IF id \in DOMAIN likeCalls THEN likeCalls[id] ELSE 0

Like(id) ==
  /\ build = "part_000"
  /\ LET r == like(id) IN
       /\ Apply(r)
       /\ likeCalls' = IF r.status = 200 THEN (id :> Calls(id) + 1) @@ likeCalls
                       ELSE likeCalls
  /\ UNCHANGED <<build, lost, failing, now, pend, session, signedUp, settled, granted>>

\* GET /api/contact
getMessages(t) ==
  LET g == Gate(t, TRUE) IN
  IF g.status # 0 THEN Reply(g.status, g.body)
  ELSE IF Lost("messages") THEN Reply(200, Null)
  ELSE Reply(200, [messages |-> messages])

GetMessages(t) ==
  /\ Apply(getMessages(t))
  /\ UNCHANGED <<build, lost, failing, now, pend, session, hist>>

\* PUT /api/contact/:id/read
markRead(t, id) ==
  LET g == Gate(t, TRUE)
      index == FindIndex(messages, id)
  IN IF g.status # 0 THEN Reply(g.status, g.body)
     ELSE IF Lost("messages") THEN Crash
     ELSE IF index = 0 THEN Reply(404, Err("Message not found"))
     ELSE LET m == Merge(messages[index], [read |-> TRUE]) IN
          Saved([Db EXCEPT !.messages = [messages EXCEPT ![index] = m]], 200, m)

MarkRead(t, id) ==
  /\ Apply(markRead(t, id))
  /\ UNCHANGED <<build, lost, failing, now, pend, session, hist>>

\* DELETE /api/contact/:id
deleteMessage(t, id) ==
  LET g == Gate(t, TRUE) IN
  IF g.status # 0 THEN Reply(g.status, g.body)
  ELSE IF Lost("messages") THEN Crash
  ELSE Saved([Db EXCEPT !.messages = Without(messages, id)], 200,
             Msg("Message deleted"))

DeleteMessage(t, id) ==
  /\ LET r == deleteMessage(t, id) IN
       /\ Apply(r)
       /\ likeCalls' = IF r.status = 200
                       THEN [k \in DOMAIN likeCalls \ {id} |-> likeCalls[k]]
                       ELSE likeCalls
  /\ UNCHANGED <<build, lost, failing, now, pend, session, signedUp, settled, granted>>

(* ------------------------------ environment ---------------------------- *)
\* A day passes.
Tick ==
  /\ now < MaxTime
  /\ now' = now + 1
  /\ UNCHANGED <<build, lost, failing, users, events, registrations, gallery, messages,
                 pend, session, hist>>

\* The credentials a request can carry: none, a string that is no token, a
\* token signed with another key, or a token some signin returned.
Forged == JwtSign(BootEmail, OtherKey, now)
Held == {session[e].token : e \in {x \in Emails : session[x].token.kind = "jwt"}}
Credentials == {NoToken, Garbage, Forged} \cup Held

\* Request bodies.
Asha == [name |-> "Asha", phone |-> "+601", password |-> "pw1"]
Ugadi == [name |-> "Ugadi"]
Photo == [title |-> "Ugadi 2025", description |-> "New year", category |-> "festivals"]
Upload ==
  [title |-> "Ugadi 2025", description |-> "New year", category |-> "festivals",
   fileData |-> "base64", fileType |-> "image", mimeType |-> "image/png"]
NoFile == [title |-> "Ugadi 2025", description |-> "New year", category |-> "festivals"]
Question == [name |-> "Asha", subject |-> "Fees", message |-> "How much?"]

(* --------------------------- users and sessions ------------------------ *)
\* Signup, signin and the admin console's user routes, by any caller, with
\* signups overlapping.
NextUsers ==
  \/ \E c \in Clients, e \in Emails : SignupBegin(c, e, Asha)
  \/ \E c \in Clients : SignupFinish(c)
  \/ \E e \in Emails, pw \in Passwords \cup {NoPw} : Signin(e, pw)
  \/ \E t \in Credentials : Me(t)
  \/ \E t \in Credentials : ListUsers(t)
  \/ \E t \in Credentials : Stats(t)
  \/ \E t \in Credentials, e \in Emails : GrantAdmin(t, e)
  \/ \E t \in Credentials, e \in Emails : RevokeAdmin(t, e)
  \/ \E t \in Credentials, e \in Emails : DeleteUser(t, e)

Spec == Init /\ [][NextUsers]_vars

(* ------------------------------- signups ------------------------------- *)
\* Signups of every profile, overlapping, and deletions by the admin.
NextSignup ==
  \/ \E c \in Clients, e \in Emails, p \in Profiles : SignupBegin(c, e, p)
  \/ \E c \in Clients : SignupFinish(c)
  \/ Signin(BootEmail, "admin123")
  \/ \E t \in Credentials, e \in Emails : DeleteUser(t, e)

SpecSignup == Init /\ [][NextSignup]_vars

(* ------------------------------ the whole site ------------------------- *)
\* Every route, with one member besides the admin, one signup at a time and
\* room for SiteRoom records in each collection.
Member == "a@x.com"
Ids == 1..2

NextSite ==
  \/ SignupBegin(1, Member, Asha)
  \/ SignupFinish(1)
  \/ Signin(BootEmail, "admin123")
  \/ \E pw \in {"pw1", "pw2"} : Signin(Member, pw)
  \/ \E t \in Credentials : Me(t)
  \/ \E t \in Credentials : ListUsers(t)
  \/ \E t \in Credentials : Stats(t)
  \/ \E t \in Credentials : GrantAdmin(t, Member)
  \/ \E t \in Credentials : RevokeAdmin(t, Member)
  \/ \E t \in Credentials : DeleteUser(t, Member)
  \/ GetEvents
  \/ \E t \in Credentials : Len(events) < SiteRoom /\ CreateEvent(t, Ugadi)
  \/ \E t \in Credentials, id \in Ids : UpdateEvent(t, id, Ugadi)
  \/ \E t \in Credentials, id \in Ids : DeleteEvent(t, id)
  \/ \E t \in Credentials, id \in Ids : Register(t, id)
  \/ GetGallery
  \/ \E t \in Credentials : Len(gallery) < SiteRoom /\ AddPhoto(t, Photo)
  \/ \E t \in Credentials, b \in {Upload, NoFile} :
        Len(gallery) < SiteRoom /\ UploadMedia(t, b)
  \/ \E t \in Credentials, id \in Ids : DeletePhoto(t, id)
  \/ Len(messages) < SiteRoom /\ Contact(Question)
  \/ Faqs
  \/ \E id \in Ids : Calls(id) < MaxLikes /\ Like(id)
  \/ \E t \in Credentials : GetMessages(t)
  \/ \E t \in Credentials, id \in Ids : MarkRead(t, id)
  \/ \E t \in Credentials, id \in Ids : DeleteMessage(t, id)

SpecSite == InitAny /\ [][NextSite]_vars

(* ------------------------------- sessions ------------------------------ *)
\* Tokens ageing: signin, the authenticated routes and the clock.
NextSession ==
  \/ Tick
  \/ SignupBegin(1, Member, Asha)
  \/ SignupFinish(1)
  \/ Signin(BootEmail, "admin123")
  \/ Signin(Member, "pw1")
  \/ \E t \in Credentials : Me(t)
  \/ \E t \in Credentials : Register(t, 1)
  \/ \E t \in Credentials : GrantAdmin(t, Member)
  \/ \E t \in Credentials : RevokeAdmin(t, Member)
  \/ \E t \in Credentials : DeleteUser(t, Member)

SpecSession == Init /\ [][NextSession]_vars

(* ----------------------------- registrations --------------------------- *)
\* Registrations only, by every identity that can sign in.
NextRegister ==
  \/ \E c \in Clients, e \in Emails : SignupBegin(c, e, Asha)
  \/ \E c \in Clients : SignupFinish(c)
  \/ \E e \in Emails, pw \in {"pw1", "admin123"} : Signin(e, pw)
  \/ \E t \in Credentials, id \in Ids : Register(t, id)

SpecRegister == Init /\ [][NextRegister]_vars

(* ================================ claims =============================== *)
\* The signups that are waiting for their hash.
Waiting == {c \in Clients : pend[c].op = "signup"}

\* A token the server signed that has not expired (stated from the token's
\* issue time, not from the middleware).
Genuine(t) == t.kind = "jwt" /\ t.key = JWT_SECRET /\ now < t.iat + TokenTTL

\* The outcome changes no collection.
Untouched(r) == r.db = Db

AdminOutcomes(t) ==
  {createEvent(t, Ugadi), addPhoto(t, Photo), uploadMedia(t, Upload),
   uploadMedia(t, NoFile), getMessages(t), listUsers(t), stats(t)}
  \cup {updateEvent(t, id, Ugadi) : id \in Ids}
  \cup {deleteEvent(t, id) : id \in Ids}
  \cup {deletePhoto(t, id) : id \in Ids}
  \cup {markRead(t, id) : id \in Ids}
  \cup {deleteMessage(t, id) : id \in Ids}
  \cup {grantAdmin(t, e) : e \in Emails}
  \cup {revokeAdmin(t, e) : e \in Emails}
  \cup {deleteUser(t, e) : e \in Emails}

\* C2: a request to an admin-only operation that carries a valid token of an
\* identity that is not in Users, or is stored with the admin flag false, is
\* answered 403 and changes no collection, whenever the token was issued.
C2_AdminOnly ==
  \A t \in Credentials :
    (Genuine(t) /\ (t.email \notin DOMAIN users \/ ~users[t.email].isAdmin)) =>
      \A r \in AdminOutcomes(t) : r.status = 403 /\ Untouched(r)

\* The member still holds a valid token of a signin made while it was an admin,
\* it is no admin any more, and its delete of the seeded event is answered 403.
C2_Witness ==
  /\ session[Member].token.kind = "jwt"
  /\ Genuine(session[Member].token)
  /\ session[Member].user.isAdmin
  /\ Member \in DOMAIN users
  /\ ~users[Member].isAdmin
  /\ deleteEvent(session[Member].token, 1).status = 403
  /\ Len(events) = 1

(* --------------------------------- C3 ---------------------------------- *)
\* C3: in every state reached by signups, grant-admin, revoke-admin and
\* delete-user requests of any callers, overlapping in any way, Users holds the
\* bootstrap admin's email with the admin flag true; so does every collection a
\* waiting signup is about to write.
C3_BootstrapAdmin ==
  /\ BootEmail \in DOMAIN users
  /\ users[BootEmail].isAdmin
  /\ \A c \in Waiting :
       BootEmail \in DOMAIN pend[c].users /\ pend[c].users[BootEmail].isAdmin

\* A member made admin holds a valid token, a signup is waiting, and the
\* member's revoke and delete of the bootstrap admin are both refused.
C3_Witness ==
  \E e \in Members :
    /\ e \in DOMAIN users /\ users[e].isAdmin
    /\ session[e].token.kind = "jwt" /\ Genuine(session[e].token)
    /\ Waiting # {}
    /\ revokeAdmin(session[e].token, BootEmail).status = 403
    /\ deleteUser(session[e].token, BootEmail).status = 403

(* --------------------------------- C4 ---------------------------------- *)
\* C4 as stated: revoke-admin and delete-user aimed at the bootstrap admin are
\* answered 403 for every caller, a caller without a token included, and leave
\* Users unchanged.
C4_AlwaysForbidden ==
  \A t \in Credentials :
    /\ revokeAdmin(t, BootEmail).status = 403
    /\ deleteUser(t, BootEmail).status = 403
    /\ revokeAdmin(t, BootEmail).db.users = users
    /\ deleteUser(t, BootEmail).db.users = users

\* C4, amended: revoke-admin and delete-user aimed at the bootstrap admin always
\* fail and leave Users unchanged: with 401 for a caller that presents no token
\* and with 403 for every other caller (an admin, the bootstrap admin itself, a
\* non-admin, a deleted identity, or an invalid token).
C4_BootstrapProtected ==
  \A t \in Credentials :
    LET want == IF t.kind = "none" THEN 401 ELSE 403 IN
    /\ revokeAdmin(t, BootEmail).status = want
    /\ deleteUser(t, BootEmail).status = want
    /\ revokeAdmin(t, BootEmail).db.users = users
    /\ deleteUser(t, BootEmail).db.users = users

\* The bootstrap admin and a non-admin member both hold valid tokens; the
\* admin's revoke and the member's delete of the bootstrap admin are refused
\* with 403, and the same requests without a token with 401.
C4_Witness ==
  \E e \in Members :
    /\ e \in DOMAIN users /\ ~users[e].isAdmin
    /\ session[e].token.kind = "jwt" /\ Genuine(session[e].token)
    /\ session[BootEmail].token.kind = "jwt" /\ Genuine(session[BootEmail].token)
    /\ revokeAdmin(session[BootEmail].token, BootEmail).status = 403
    /\ deleteUser(session[e].token, BootEmail).status = 403
    /\ deleteUser(NoToken, BootEmail).status = 401

(* --------------------------------- C5 ---------------------------------- *)
\* The step stores e with the admin flag true where it was not before.
TurnedOn(e) ==
  /\ e \in DOMAIN users' /\ users'[e].isAdmin
  /\ ~(e \in DOMAIN users /\ users[e].isAdmin)

\* The step is a grant-admin aimed at e, on behalf of an admin.
GrantStep(e) ==
  /\ pend' = pend
  /\ \E t \in Credentials : IsAdminNow(t) /\ users' = grantAdmin(t, e).db.users

\* The step is the write of a signup of another email, which read Users while
\* e, after a grant, had the flag.
StaleWriteStep(e) ==
  \E c \in Waiting :
    /\ pend'[c] = Idle
    /\ users' = signupWrite(pend[c]).db.users
    /\ pend[c].email # e
    /\ e \in granted
    /\ e \in DOMAIN pend[c].users /\ pend[c].users[e].isAdmin

AuthOutcomes(t) ==
  AdminOutcomes(t) \cup {me(t)} \cup {register(t, id) : id \in Ids}

\* C6: behind authenticateToken, a request without a token is answered 401; a
\* request whose token is malformed, signed with another key or expired is
\* answered 403; both change nothing.  A request with a valid token gets the
\* token's email as its identity and its handler runs.
C6_Authenticate ==
  \A t \in Credentials :
    /\ t.kind = "none" =>
         \A r \in AuthOutcomes(t) :
           r.status = 401 /\ r.body = Err("Access token required") /\ Untouched(r)
    /\ (t.kind # "none" /\ ~Genuine(t)) =>
         \A r \in AuthOutcomes(t) :
           r.status = 403 /\ r.body = Err("Invalid token") /\ Untouched(r)
    /\ Genuine(t) =>
         /\ authenticateToken(t).status = 0
         /\ authenticateToken(t).user = t.email
         /\ IF t.email \in DOMAIN users
            THEN me(t).status = 200 /\ me(t).body.email = t.email
            ELSE me(t).status = 404
         /\ LET r == register(t, 1) IN
              IF 1 \in DOMAIN registrations /\ Includes(registrations[1], t.email)
              THEN r.status = 400
              ELSE r.status = 200 /\ Includes(r.db.registrations[1], t.email)

\* One held token has expired and is answered 403, another is valid and is
\* answered with its owner's profile.
C6_Witness ==
  \E t1 \in Held, t2 \in Held :
    /\ ~Genuine(t1) /\ me(t1).status = 403
    /\ Genuine(t2) /\ me(t2).status = 200 /\ me(t2).body.email = t2.email

(* --------------------------------- C7 ---------------------------------- *)
\* C7: signin with a stored email and the password whose hash is stored with
\* it is answered 200 with a token that verifies and yields that email.
C7_Signin ==
  \A e \in DOMAIN users, pw \in Passwords :
    users[e].password = Hash(pw) =>
      LET r == signin(e, pw) IN
      /\ r.status = 200
      /\ authenticateToken(r.body.token).status = 0
      /\ authenticateToken(r.body.token).user = e
      /\ Untouched(r)

\* A member that signed up has signed in, and the token it holds verifies to
\* its email.
C7_Witness ==
  \E e \in Members \cap DOMAIN users :
    /\ users[e].password = Hash("pw1")
    /\ session[e].token.kind = "jwt"
    /\ authenticateToken(session[e].token).status = 0
    /\ authenticateToken(session[e].token).user = e

(* --------------------------------- C8 ---------------------------------- *)
\* C8: a signin that does not succeed, for an unknown email or for a known
\* email whose stored hash the request's password does not match, gets one and
\* the same answer, 400 "Invalid credentials", so that the answer does not tell
\* whether the email is registered.
C8_SameAnswer ==
  \A e \in Emails, pw \in Passwords \cup {NoPw} :
    (e \notin DOMAIN users \/ users[e].password # Hash(pw)) =>
      /\ signin(e, pw).status = 400
      /\ signin(e, pw).body = Err("Invalid credentials")

(* --------------------------------- C9 ---------------------------------- *)
\* A profile in a response: no password field, and no field with a plaintext.
ProfileClean(p) ==
  /\ "password" \notin DOMAIN p
  /\ \A k \in DOMAIN p \cap {"name", "email", "phone"} : p[k] \notin Passwords

NoPasswordIn(items) == \A i \in 1..Len(items) : "password" \notin DOMAIN items[i]

\* C9: no response carries a stored password hash or a plaintext password, and
\* GET /api/auth/me answers with name, email, phone and isAdmin of the caller
\* and nothing else.
C9_NoPassword ==
  /\ \A t \in Credentials :
       /\ \A r \in AuthOutcomes(t) : "password" \notin DOMAIN r.body
       /\ listUsers(t).status = 200 =>
            \A p \in listUsers(t).body.users : ProfileClean(p)
       /\ getMessages(t).status = 200 => NoPasswordIn(getMessages(t).body.messages)
       /\ me(t).status = 200 =>
            me(t).body = [name |-> users[t.email].name, email |-> users[t.email].email,
                          phone |-> users[t.email].phone,
                          isAdmin |-> users[t.email].isAdmin]
  /\ \A e \in Emails, pw \in Passwords \cup {NoPw} :
       LET r == signin(e, pw) IN
       /\ "password" \notin DOMAIN r.body
       /\ r.status = 200 =>
            DOMAIN r.body = {"token", "user"} /\ ProfileClean(r.body.user)
  /\ \A e \in Emails : "password" \notin DOMAIN signupCheck(e).body
  /\ \A c \in Waiting : "password" \notin DOMAIN signupWrite(pend[c]).body
  /\ NoPasswordIn(getEvents.body.events)
  /\ NoPasswordIn(getGallery.body.gallery)
  /\ NoPasswordIn(faqs.body.faqs)
  /\ "password" \notin DOMAIN contact(Question).body
  /\ \A id \in Ids : "password" \notin DOMAIN like(id).body

\* The member has signed up and signed in; /me answers its four fields, and the
\* admin's user list has its entry.
C9_Witness ==
  /\ Member \in DOMAIN users
  /\ users[Member].password = Hash("pw1")
  /\ session[Member].token.kind = "jwt"
  /\ me(session[Member].token).status = 200
  /\ DOMAIN me(session[Member].token).body = {"name", "email", "phone", "isAdmin"}
  /\ session[BootEmail].token.kind = "jwt"
  /\ listUsers(session[BootEmail].token).status = 200

(* --------------------------------- C10 --------------------------------- *)
\* C10: after any sequence of register calls from the seeded state, every
\* event's registrations count is the number of emails registered for it.
C10_CountMatches ==
  \A i \in 1..Len(events) :
    events[i].registrations =
      IF events[i].id \in DOMAIN registrations
      THEN Len(registrations[events[i].id]) ELSE 0

\* Two identities are registered for the seeded event, whose count is 2, and a
\* repeated registration is answered 400.
C10_Witness ==
  /\ 1 \in DOMAIN registrations
  /\ Len(registrations[1]) = 2
  /\ events[1].registrations = 2
  /\ \E t \in Held : register(t, 1).status = 400

(* ------------------------- events and registrations ------------------- *)
\* The admin's event routes and register, with bodies that carry fields of
\* their own choice, for the admin and one member.
EventBodies == {Ugadi, [name |-> "Ugadi", id |-> 1]}
PatchBodies == {[name |-> "Ugadi 2026"], [registrations |-> 5]}

NextEvents ==
  \/ SignupBegin(1, Member, Asha)
  \/ SignupFinish(1)
  \/ Signin(BootEmail, "admin123")
  \/ Signin(Member, "pw1")
  \/ GetEvents
  \/ \E t \in Credentials, b \in EventBodies :
        Len(events) < EventRoom /\ CreateEvent(t, b)
  \/ \E t \in Credentials, id \in Ids, b \in PatchBodies : UpdateEvent(t, id, b)
  \/ \E t \in Credentials, id \in Ids : DeleteEvent(t, id)
  \/ \E t \in Credentials, id \in Ids : Register(t, id)

SpecEvents == Init /\ [][NextEvents]_vars

\* The emails registered under an event id.
Registered(id) ==
  IF id \in DOMAIN registrations
  THEN {registrations[id][i] : i \in 1..Len(registrations[id])} ELSE {}

(* --------------------------------- C11 --------------------------------- *)
\* C11: under any sequence of event create, update, delete and register
\* requests, every stored event's registrations count is the number of emails
\* registered under the event's id (0 if there are none), also for an event
\* created after an event of the same id was deleted, and for an updated event.
C11_CountConsistent ==
  \A i \in 1..Len(events) :
    events[i].registrations = Cardinality(Registered(events[i].id))

(* --------------------------------- C12 --------------------------------- *)
\* C12: a register request of an identity that is already registered for the
\* event is answered 400 and changes neither the registrations nor the event;
\* so no email is ever twice in the registrations of an event.
C12_NoDoubleRegistration ==
  /\ \A t \in Credentials, id \in Ids :
       (Genuine(t) /\ t.email \in Registered(id)) =>
         LET r == register(t, id) IN
         /\ Untouched(r)
         /\ FindIndex(events, id) # 0 =>
              r.status = 400 /\ r.body = Err("Already registered for this event")
  /\ \A id \in DOMAIN registrations :
       Cardinality(Registered(id)) = Len(registrations[id])

\* The admin and the member are both registered for event 1, which is stored,
\* and the member's further registration is answered 400.
C12_Witness ==
  /\ Registered(1) = {BootEmail, Member}
  /\ FindIndex(events, 1) # 0
  /\ session[Member].token.kind = "jwt"
  /\ register(session[Member].token, 1).status = 400

(* ------------------------------ records and ids ------------------------ *)
\* Creates, updates and deletes on Events, Gallery and Messages of either
\* build, with bodies that do and do not carry an id of their own.
PhotoBodies == {Photo, Merge(Photo, [id |-> 1])}
ContactBodies == {Question, Merge(Question, [id |-> 1])}
IdPatches == {[name |-> "Ugadi 2026"], [id |-> 2]}

NextRecords ==
  \/ Signin(BootEmail, "admin123")
  \/ \E t \in Credentials, b \in EventBodies :
        Len(events) < RecordRoom /\ CreateEvent(t, b)
  \/ \E t \in Credentials, id \in Ids, b \in IdPatches : UpdateEvent(t, id, b)
  \/ \E t \in Credentials, id \in Ids : DeleteEvent(t, id)
  \/ \E t \in Credentials, b \in PhotoBodies :
        Len(gallery) < RecordRoom /\ AddPhoto(t, b)
  \/ \E t \in Credentials : Len(gallery) < RecordRoom /\ UploadMedia(t, Upload)
  \/ \E t \in Credentials, id \in Ids : DeletePhoto(t, id)
  \/ \E b \in ContactBodies : Len(messages) < RecordRoom /\ Contact(b)
  \/ \E t \in Credentials, id \in Ids : MarkRead(t, id)
  \/ \E t \in Credentials, id \in Ids : DeleteMessage(t, id)

SpecRecords == InitAny /\ [][NextRecords]_vars

\* The ids of a collection.
IdsOf(coll) == {coll[i].id : i \in 1..Len(coll)}

(* --------------------------------- C13 --------------------------------- *)
\* C13: in every reachable state the ids within Events, within Gallery and
\* within Messages are pairwise distinct, whatever the bodies of the create,
\* update and delete requests were (bodies with an id field included).
C13_IdsDistinct ==
  /\ Cardinality(IdsOf(events)) = Len(events)
  /\ Cardinality(IdsOf(gallery)) = Len(gallery)
  /\ Cardinality(IdsOf(messages)) = Len(messages)

(* --------------------------------- C14 --------------------------------- *)
\* The id the rule assigns: the largest id stored plus one, 1 for none.
RuleId(coll) ==
  IF coll = <<>> THEN 1
  ELSE (CHOOSE n \in IdsOf(coll) : \A k \in IdsOf(coll) : k <= n) + 1

\* The record a create appended.
Created(coll) == coll[Len(coll)]

\* C14: every create on Events, Gallery or Messages gives the new record the
\* largest id stored in the collection plus one, or 1 when the collection is
\* empty (so the id of a deleted record with the largest id is given again).
C14_MaxPlusOne ==
  /\ \A t \in Credentials, b \in EventBodies :
       createEvent(t, b).status = 200 =>
         Created(createEvent(t, b).db.events).id = RuleId(events)
  /\ \A t \in Credentials, b \in PhotoBodies :
       addPhoto(t, b).status = 200 =>
         Created(addPhoto(t, b).db.gallery).id = RuleId(gallery)
  /\ \A t \in Credentials :
       uploadMedia(t, Upload).status = 200 =>
         Created(uploadMedia(t, Upload).db.gallery).id = RuleId(gallery)
  /\ \A b \in ContactBodies :
       Created(contact(b).db.messages).id = RuleId(messages)

(* ------------------------------- messages ------------------------------ *)
\* A message stored by the build without likes (it has no likes field).
OldQuestion ==
  [id |-> 1, name |-> "Ravi", subject |-> "Hall", message |-> "Where?",
   date |-> 0, read |-> FALSE]

\* The later build started on an empty data directory, or on one the earlier
\* build left a message in.
InitMessages ==
  /\ build = "part_000"
  /\ now = 0
  /\ users = (BootEmail :> BootUser)
  /\ events = <<SeedEvent>>
  /\ registrations = <<>>
  /\ gallery = <<>>
  /\ messages \in {<<>>, <<OldQuestion>>}
  /\ pend = [c \in Clients |-> Idle]
  /\ session = [e \in Emails |-> NoSession]
  /\ signedUp = {}
  /\ settled = {}
  /\ granted = {}
  /\ likeCalls = <<>>
  /\ lost = {}
  /\ failing = {}

\* The message routes: the public ones by anyone, the others by any caller.
NextMessages ==
  \/ Signin(BootEmail, "admin123")
  \/ Len(messages) < MsgRoom /\ Contact(Question)
  \/ Faqs
  \/ \E id \in Ids : Calls(id) < LikeRoom /\ Like(id)
  \/ \E t \in Credentials : GetMessages(t)
  \/ \E t \in Credentials, id \in Ids : MarkRead(t, id)
  \/ \E t \in Credentials, id \in Ids : DeleteMessage(t, id)

SpecMessages == InitMessages /\ [][NextMessages]_vars

(* --------------------------------- C15 --------------------------------- *)
\* C15: a like request for a stored message is answered 200, raises that
\* message's like counter by exactly 1 and changes nothing else; after k such
\* requests, however they are mixed with each other and with other message
\* requests that do not delete the message, the counter is its first value
\* (0) plus k.
C15_LikeCounts ==
  /\ \A i \in 1..Len(messages) : Likes(messages[i]) = Calls(messages[i].id)
  /\ \A id \in Ids :
       LET at == {i \in 1..Len(messages) : messages[i].id = id}
           r == like(id)
       IN \A i \in at :
            /\ r.status = 200
            /\ r.body = [likes |-> Likes(messages[i]) + 1]
            /\ Likes(r.db.messages[i]) = Likes(messages[i]) + 1
            /\ \A k \in DOMAIN messages[i] \ {"likes"} :
                 r.db.messages[i][k] = messages[i][k]
            /\ \A j \in 1..Len(messages) \ {i} : r.db.messages[j] = messages[j]
            /\ Len(r.db.messages) = Len(messages)
            /\ r.db.users = users /\ r.db.events = events
            /\ r.db.gallery = gallery /\ r.db.registrations = registrations

\* A message was liked LikeRoom times and marked read in between, another
\* once; their counters are LikeRoom and 1.
C15_Witness ==
  /\ Len(messages) = 2
  /\ \E i, j \in 1..2 :
       /\ Likes(messages[i]) = LikeRoom /\ messages[i].read
       /\ Likes(messages[j]) = 1 /\ Calls(messages[j].id) = 1

(* ------------------------------ FAQ listing ---------------------------- *)
\* The i-th message of a collection that contact and like requests have built:
\* its likes follow one of a few patterns, with ties and without.
Asked(i, a, b, m) ==
  [id |-> i, name |-> "Asha", subject |-> "Fees", message |-> "How much?",
   date |-> 0, read |-> (i % 2 = 0), likes |-> (a * i + b) % m]

InitFaq ==
  /\ build = "part_000"
  /\ now = 0
  /\ users = (BootEmail :> BootUser)
  /\ events = <<SeedEvent>>
  /\ registrations = <<>>
  /\ gallery = <<>>
  /\ \E n \in 0..FaqRoom, a \in {0, 1, 3}, b \in {0, 1}, m \in {2, 5, 23},
        old \in BOOLEAN :
       messages = [i \in 1..n |-> IF old /\ i = 1 THEN OldQuestion
                                  ELSE Asked(i, a, b, m)]
  /\ pend = [c \in Clients |-> Idle]
  /\ session = [e \in Emails |-> NoSession]
  /\ signedUp = {}
  /\ settled = {}
  /\ granted = {}
  /\ likeCalls = <<>>
  /\ lost = {}
  /\ failing = {}

NextFaq ==
  \/ Faqs
  \/ Len(messages) < FaqRoom /\ Contact(Question)
  \/ \E id \in Ids : Calls(id) < 1 /\ Like(id)

SpecFaq == InitFaq /\ [][NextFaq]_vars

(* --------------------------------- C16 --------------------------------- *)
\* The place of the i-th stored message in the listing's order: behind every
\* message with more likes, and behind the earlier ones with as many.
Place(i) ==
  Cardinality({j \in 1..Len(messages) :
                 \/ Likes(messages[j]) > Likes(messages[i])
                 \/ (Likes(messages[j]) = Likes(messages[i]) /\ j < i)}) + 1

\* C16: the FAQ listing returns min(20, number of messages) entries, ordered
\* by likes descending with ties in stored order, each the projection of a
\* message to id, name, subject, message, date and likes (no read flag), and
\* it leaves the stored messages, content and order, unchanged.
C16_FaqListing ==
  LET r == faqs
      list == r.body.faqs
  IN /\ r.status = 200
     /\ Untouched(r)
     /\ Len(list) = IF Len(messages) < 20 THEN Len(messages) ELSE 20
     /\ \A i \in 1..Len(messages) :
          Place(i) <= Len(list) =>
            LET v == list[Place(i)] IN
            /\ DOMAIN v = {"id", "name", "subject", "message", "date", "likes"}
            /\ v.id = messages[i].id /\ v.name = messages[i].name
            /\ v.subject = messages[i].subject /\ v.message = messages[i].message
            /\ v.date = messages[i].date
            /\ v.likes = Likes(messages[i])

\* More than 20 messages are stored, some with as many likes as others, the
\* first without a likes field and not the most liked, the second liked once.
C16_Witness ==
  /\ Len(messages) > 20
  /\ Calls(2) = 1
  /\ Len(faqs.body.faqs) = 20
  /\ "likes" \notin DOMAIN messages[1]
  /\ \E i, j \in 1..Len(messages) :
       i < j /\ Likes(messages[i]) = Likes(messages[j]) /\ Place(j) <= 20
  /\ \E i \in 1..Len(messages) : Likes(messages[i]) > Likes(messages[1])

(* ------------------------------ storage faults ------------------------- *)
Files == {"users", "events", "registrations", "gallery", "messages"}

\* A data file goes missing or stops being JSON: readData returns null.
Lose(f) ==
  /\ Cardinality(lost) < FaultRoom
  /\ f \notin lost
  /\ lost' = lost \cup {f}
  /\ UNCHANGED <<build, now, users, events, registrations, gallery, messages,
                 pend, session, hist, failing>>

\* A data file stops being writable: writeData returns false.
Fail(f) ==
  /\ Cardinality(failing) < FaultRoom
  /\ f \notin failing
  /\ failing' = failing \cup {f}
  /\ UNCHANGED <<build, now, users, events, registrations, gallery, messages,
                 pend, session, hist, lost>>

\* ... and is writable again.
Mend(f) ==
  /\ f \in failing
  /\ failing' = failing \ {f}
  /\ UNCHANGED <<build, now, users, events, registrations, gallery, messages,
                 pend, session, hist, lost>>

NextStorage ==
  \/ \E f \in Files : Lose(f)
  \/ \E f \in Files : Fail(f)
  \/ \E f \in Files : Mend(f)
  \/ SignupBegin(1, Member, Asha)
  \/ SignupFinish(1)
  \/ Signin(BootEmail, "admin123")
  \/ Signin(Member, "pw1")
  \/ \E t \in Credentials : Me(t)
  \/ \E t \in Credentials : Stats(t)
  \/ \E t \in Credentials : GrantAdmin(t, Member)
  \/ GetEvents
  \/ \E t \in Credentials : Len(events) < EventRoom /\ CreateEvent(t, Ugadi)
  \/ \E t \in Credentials, id \in Ids : DeleteEvent(t, id)
  \/ \E t \in Credentials : Register(t, 1)
  \/ Len(messages) < SiteRoom /\ Contact(Question)
  \/ \E t \in Credentials : GetMessages(t)
  \/ Calls(1) < MaxLikes /\ Like(1)

SpecStorage == Init /\ [][NextStorage]_vars

(* --------------------------------- C17 --------------------------------- *)
\* C17: when the load of a collection returns the absent value, every handler
\* answers as it does for the empty collection of that shape, and none raises
\* an exception.
C17_AbsentIsEmpty ==
  /\ Lost("events") =>
       /\ getEvents = Reply(200, [events |-> <<>>])
       /\ \A t \in Credentials :
            /\ Genuine(t) => register(t, 1).status = 404
            /\ (IsAdminNow(t) /\ ~Lost("users")) =>
                 /\ createEvent(t, Ugadi).status = 200
                 /\ updateEvent(t, 1, Ugadi).status = 404
                 /\ deleteEvent(t, 1).status = 200
  /\ Lost("users") =>
       /\ \A e \in Emails : signupCheck(e).status = 0
       /\ \A e \in Emails, pw \in Passwords : signin(e, pw).status = 400
       /\ \A t \in Credentials :
            Genuine(t) => (me(t).status = 404 /\ stats(t).status = 403)
  /\ Lost("registrations") =>
       \A t \in Credentials :
         (Genuine(t) /\ ~Lost("events") /\ FindIndex(events, 1) # 0) =>
           register(t, 1).status = 200
  /\ Lost("gallery") => getGallery = Reply(200, [gallery |-> <<>>])
  /\ Lost("messages") =>
       /\ contact(Question).status = 200
       /\ faqs = Reply(200, [faqs |-> <<>>])
       /\ like(1).status = 404

(* --------------------------------- C18 --------------------------------- *)
\* C18: a request in whose handler the save of a collection fails is answered
\* 500, never with a success response.
C18_FailedSaveIs500 ==
  /\ ("events" \in failing /\ lost = {}) =>
       \A t \in Credentials :
         IsAdminNow(t) =>
           /\ createEvent(t, Ugadi).status = 500
           /\ deleteEvent(t, 1).status = 500
  /\ ("registrations" \in failing /\ lost = {}) =>
       \A t \in Credentials :
         (Genuine(t) /\ FindIndex(events, 1) # 0 /\ t.email \notin Registered(1)) =>
           register(t, 1).status = 500
  /\ ("messages" \in failing /\ lost = {}) =>
       /\ contact(Question).status = 500
       /\ FindIndex(messages, 1) # 0 => like(1).status = 500
  /\ ("users" \in failing /\ lost = {}) =>
       /\ \A c \in Waiting : signupWrite(pend[c]).status = 500
       /\ \A t \in Credentials :
            (IsAdminNow(t) /\ Member \in DOMAIN users) =>
              grantAdmin(t, Member).status = 500

(* --------------------------------- C19 --------------------------------- *)
\* The outcome is 404 and nothing is changed.
NotFound(r) == r.status = 404 /\ Untouched(r)

\* C19: every request that addresses a record by an id or an email that is not
\* in its collection (update or delete of an event, register, delete of a
\* gallery item, mark-read, delete or like of a message, grant-admin,
\* revoke-admin, delete-user) is answered 404 and changes nothing.
C19_UnknownIs404 ==
  \A t \in Credentials :
    /\ Genuine(t) =>
         \A id \in Ids \ IdsOf(events) : NotFound(register(t, id))
    /\ IsAdminNow(t) =>
         /\ \A id \in Ids \ IdsOf(events) :
              /\ NotFound(updateEvent(t, id, Ugadi))
              /\ NotFound(deleteEvent(t, id))
         /\ \A id \in Ids \ IdsOf(gallery) : NotFound(deletePhoto(t, id))
         /\ \A id \in Ids \ IdsOf(messages) :
              /\ NotFound(markRead(t, id))
              /\ NotFound(deleteMessage(t, id))
              /\ build = "part_000" => NotFound(like(id))
         /\ \A e \in Emails \ DOMAIN users :
              /\ NotFound(grantAdmin(t, e))
              /\ NotFound(revokeAdmin(t, e))
              /\ NotFound(deleteUser(t, e))

(* --------------------------------- C20 --------------------------------- *)
\* C20: a token that signin issued for an identity is accepted by
\* authenticateToken, with that identity, at every time before its issue plus
\* 7 days, whatever became of the identity in Users since (revoked, deleted),
\* and is answered 403 at every time after its issue plus 7 days.
C20_Stateless ==
  \A e \in Emails :
    LET t == session[e].token IN
    t.kind = "jwt" =>
      /\ now < t.iat + 7 =>
           authenticateToken(t).status = 0 /\ authenticateToken(t).user = e
      /\ now > t.iat + 7 => authenticateToken(t).status = 403

\* The member was made admin, signed in and was deleted; its token is still
\* accepted, while the admin's older token is past its 7 days and refused.
C20_Witness ==
  /\ Member \in granted
  /\ Member \notin DOMAIN users
  /\ session[Member].token.kind = "jwt"
  /\ authenticateToken(session[Member].token).status = 0
  /\ session[BootEmail].token.kind = "jwt"
  /\ now > session[BootEmail].token.iat + 7
  /\ authenticateToken(session[BootEmail].token).status = 403

(* --------------------------- the User collection ----------------------- *)
\* Signups of the two members, overlapping each other and the admin console's
\* user routes, next to requests of every other family.
NextFrame ==
  \/ \E c \in Clients, e \in Members : SignupBegin(c, e, Asha)
  \/ \E c \in Clients : SignupFinish(c)
  \/ Signin(BootEmail, "admin123")
  \/ \E t \in Credentials : Me(t)
  \/ \E t \in Credentials : ListUsers(t)
  \/ \E t \in Credentials : Stats(t)
  \/ \E t \in Credentials, e \in Members : GrantAdmin(t, e)
  \/ \E t \in Credentials, e \in Members : RevokeAdmin(t, e)
  \/ \E t \in Credentials, e \in Members : DeleteUser(t, e)
  \/ \E t \in Credentials : Register(t, 1)
  \/ \E t \in Credentials : DeleteEvent(t, 1)
  \/ \E t \in Credentials : Len(gallery) < SiteRoom /\ UploadMedia(t, Upload)
  \/ Len(messages) < SiteRoom /\ Contact(Question)

SpecFrame == Init /\ [][NextFrame]_vars

(* --------------------------------- C21 --------------------------------- *)
\* Collection v holds of e what collection u holds (nothing, if u has no e).
SameRecord(u, v, e) ==
  IF e \in DOMAIN u THEN e \in DOMAIN v /\ v[e] = u[e] ELSE e \notin DOMAIN v

\* A console request aimed at e leaves every other record as it is; grant-admin
\* and revoke-admin remove nothing, delete-user alters nothing.
ConsoleKept ==
  \A t \in Credentials, e \in Emails :
    /\ \A r \in {grantAdmin(t, e), revokeAdmin(t, e), deleteUser(t, e)} :
         \A x \in Emails \ {e} : SameRecord(users, r.db.users, x)
    /\ \A r \in {grantAdmin(t, e), revokeAdmin(t, e)} :
         DOMAIN r.db.users = DOMAIN users
    /\ \A x \in DOMAIN deleteUser(t, e).db.users :
         deleteUser(t, e).db.users[x] = users[x]

\* The requests that are no signup and no console request leave Users as it is.
UsersKept ==
  /\ \A e \in Emails, pw \in Passwords \cup {NoPw} : signin(e, pw).db.users = users
  /\ \A e \in Emails : Untouched(signupCheck(e))
  /\ \A t \in Credentials :
       /\ \A r \in {me(t), listUsers(t), stats(t), getMessages(t),
                    createEvent(t, Ugadi), addPhoto(t, Photo),
                    uploadMedia(t, Upload), uploadMedia(t, NoFile)} :
            r.db.users = users
       /\ \A id \in Ids :
            \A r \in {updateEvent(t, id, Ugadi), deleteEvent(t, id),
                      register(t, id), deletePhoto(t, id), markRead(t, id),
                      deleteMessage(t, id)} :
              r.db.users = users
  /\ \A r \in {getEvents, getGallery, contact(Question), faqs} : r.db.users = users
  /\ \A id \in Ids : like(id).db.users = users

ReadPlusNew(q) ==
  (q.email :> NewUser(q.profile.name, q.email, q.profile.phone,
                      Hash(q.profile.password))) @@ q.users

\* C22: when two read-modify-write cycles on Users overlap (both have loaded
\* the collection before either saves), each save stores exactly the document
\* its own request read plus its own change, so after the later save the
\* collection is that document and the earlier writer's change is not in it;
\* nothing is merged and both callers get their success response.
C22_LaterSaveWins ==
  \A c \in Waiting :
    LET q == pend[c]
        r == signupWrite(q)
    IN ~BcryptThrows(q.profile.password) =>
         /\ r.status = 200
         /\ r.body = [message |-> "Account created successfully", email |-> q.email]
         /\ r.db.users = ReadPlusNew(q)
         /\ \A e \in Emails \ {q.email} : SameRecord(q.users, r.db.users, e)
         /\ \A d \in Waiting \ {c} :
              LET p == pend[d] IN
              (~BcryptThrows(p.profile.password) /\ p.email # q.email
                 /\ p.email \notin DOMAIN q.users) =>
                /\ p.email \in DOMAIN signupWrite(p).db.users
                /\ p.email \notin DOMAIN r.db.users

\* Two signups of different members overlapped and both were answered 200; the
\* one that saved first is not in Users, the one that saved last is, and no
\* request is waiting.
C22_Witness ==
  \E e1 \in Members, e2 \in Members :
    /\ e1 # e2
    /\ e1 \in signedUp /\ e1 \notin DOMAIN users
    /\ e2 \in settled /\ e2 \in DOMAIN users
    /\ \A c \in Clients : pend[c].op = "idle"

(* -------------------------------- seeding ------------------------------ *)
\* defaultAdmin: memberSince is the time of the seeding
defaultAdmin == [BootUser EXCEPT !.memberSince = now]

\* The default document of each file, as build b writes it.
Defaults(b) ==
  [users |-> (BootEmail :> defaultAdmin),
   events |-> <<SeedEvent>>,
   registrations |-> <<>>,
   gallery |-> IF b = "server.js" THEN <<SeedPhoto>> ELSE <<>>,
   messages |-> <<>>]

\* Variant: the defaults are written whether or not the file exists.
initializeDataFilesAlways(b, fs) ==
  [db |-> [f \in DOMAIN fs.db |-> Defaults(b)[f]], absent |-> {}]

\* initializeDataFiles() of build b on the data directory fs (the documents,
\* and which of the files do not exist): if (!fs.existsSync(FILE)) the
\* default is written, and afterwards every file exists.
initializeDataFiles(b, fs) ==
  [db |-> [f \in DOMAIN fs.db |->
             IF f \in fs.absent THEN Defaults(b)[f] ELSE fs.db[f]],
   absent |-> {}]

\* The process starts again, as build b, on the data directory as it is; of
\* the files that cannot be read, those in gone do not exist (the others exist
\* and are no JSON).  Requests that were waiting are gone with the old process.
Restart(b, gone) ==
  /\ gone \subseteq lost
  /\ Apply(initializeDataFiles(b, [db |-> Db, absent |-> gone]))
  /\ build' = b
  /\ lost' = lost \ gone
  /\ pend' = [c \in Clients |-> Idle]
  /\ signedUp' = IF "users" \in gone THEN {} ELSE signedUp
  /\ settled' = IF "users" \in gone THEN {} ELSE settled
  /\ likeCalls' = IF "messages" \in gone THEN <<>> ELSE likeCalls
  /\ UNCHANGED <<now, session, granted, failing>>

\* The site in use over restarts: members sign up, the admin deletes events,
\* visitors write, files go missing, and either build is started on what is
\* there.
NextSeed ==
  \/ now < SeedDays /\ Tick
  \/ \E f \in Files : Lose(f)
  \/ \E b \in Builds, gone \in SUBSET Files : Restart(b, gone)
  \/ SignupBegin(1, Member, Asha)
  \/ SignupFinish(1)
  \/ Signin(BootEmail, "admin123")
  \/ \E t \in Credentials : DeleteEvent(t, 1)
  \/ Len(messages) < SiteRoom /\ Contact(Question)

SpecSeed == InitAny /\ [][NextSeed]_vars

(* --------------------------------- C23 --------------------------------- *)
\* C23: seeding writes the default document of a collection only when that
\* collection's file is absent; on a state where the document exists (users
\* added, events deleted) it leaves the document unchanged, and seeding twice
\* in a row gives what seeding once gives.
C23_SeedIdempotent ==
  \A b \in Builds, gone \in SUBSET Files :
    LET once == initializeDataFiles(b, [db |-> Db, absent |-> gone])
        twice == initializeDataFiles(b, once)
    IN /\ \A f \in Files \ gone : once.db[f] = Db[f]
       /\ \A f \in gone : once.db[f] = Defaults(b)[f]
       /\ gone = {} => once.db = Db
       /\ once.absent = {}
       /\ twice = once

\* The later build runs on a gallery the earlier build seeded, which the
\* restart left as it was; the users file was missing at a restart on a later
\* day and was seeded again, while the emptied events file was not.
C23_Witness ==
  /\ build = "part_000"
  /\ gallery = <<SeedPhoto>>
  /\ users = (BootEmail :> defaultAdmin)
  /\ now > 0
  /\ events = <<>>
  /\ Len(messages) = 1
  /\ lost = {}

(* --------------------------------- C24 --------------------------------- *)
\* C24: of two signups of the same email that overlap (both have read Users
\* and wait for their hash), at most one is answered with success.
C24_AtMostOneSuccess ==
  \A c1 \in Waiting, c2 \in Waiting :
    (c1 # c2 /\ pend[c1].email = pend[c2].email) =>
      ~(signupWrite(pend[c1]).status = 200 /\ signupWrite(pend[c2]).status = 200)

(* --------------------------------- C25 --------------------------------- *)
\* C25: register loads, changes and saves Events and Registrations in one
\* step, so a register request of an identity that is not yet registered for
\* a stored event is answered 200 and adds that identity to what every
\* earlier registration stored, with the event's count one higher; after the
\* requests of n distinct identities, in any order, the event's registrations
\* are those n emails and its count is n.
C25_NoLostRegistration ==
  /\ \A t \in Credentials, id \in Ids :
       (Genuine(t) /\ FindIndex(events, id) # 0 /\ t.email \notin Registered(id)) =>
         LET r == register(t, id)
             at == FindIndex(events, id)
             old == IF id \in DOMAIN registrations THEN registrations[id] ELSE <<>>
         IN /\ r.status = 200
            /\ r.db.registrations[id] = Append(old, t.email)
            /\ r.db.events[at].registrations = Cardinality(Registered(id)) + 1
            /\ r.body.event = r.db.events[at]
            /\ \A k \in DOMAIN registrations \ {id} :
                 r.db.registrations[k] = registrations[k]
            /\ \A i \in 1..Len(events) : i # at => r.db.events[i] = events[i]
  /\ \A e \in Emails, id \in Ids :
       (session[e].token.kind = "jwt" /\ FindIndex(events, id) # 0) =>
         \/ e \in Registered(id)
         \/ register(session[e].token, id).status = 200
  /\ \A i \in 1..Len(events) :
       /\ IF events[i].id \in DOMAIN registrations
          THEN events[i].registrations = Len(registrations[events[i].id])
          ELSE events[i].registrations = 0
       /\ events[i].id \in DOMAIN registrations =>
            Cardinality(Registered(events[i].id)) = Len(registrations[events[i].id])

\* All three identities have registered for the seeded event: its
\* registrations are the three emails and its count is 3.
C25_Witness ==
  /\ Registered(1) = Emails
  /\ Len(registrations[1]) = 3
  /\ events[FindIndex(events, 1)].registrations = 3

(* --------------------------------- C26 --------------------------------- *)
\* The statuses of a refused request.
Refusals == {400, 401, 403, 404}

\* The outcomes of every request a caller with token t can make.
AllOutcomes(t) ==
  AuthOutcomes(t)
  \cup {signupCheck(e) : e \in Emails}
  \cup {signin(e, pw) : e \in Emails, pw \in Passwords \cup {NoPw}}
  \cup {getEvents, getGallery, faqs, contact(Question)}
  \cup {like(id) : id \in Ids}
  \cup {updateEvent(t, id, b) : id \in Ids, b \in PatchBodies}
  \cup {createEvent(t, b) : b \in EventBodies}

\* C26: every request answered 400, 401, 403 or 404 leaves Users, Events,
\* Registrations, Gallery and Messages exactly as they were; a refused
\* registration (duplicate, or for an unknown event) does not store an empty
\* registration list for the event.
C26_RefusedChangesNothing ==
  \A t \in Credentials :
    /\ \A r \in AllOutcomes(t) :
         r.status \in Refusals =>
           /\ r.db.users = users /\ r.db.events = events
           /\ r.db.registrations = registrations
           /\ r.db.gallery = gallery /\ r.db.messages = messages
    /\ \A id \in Ids :
         register(t, id).status \in Refusals =>
           DOMAIN register(t, id).db.registrations = DOMAIN registrations

\* The member is registered for event 1 and holds a valid token: its repeated
\* registration is answered 400, its registration for event 2, which is not
\* stored and has no registration list, 404, its delete of event 1 403, and a
\* signup of its email 400.
C26_Witness ==
  /\ Member \in Registered(1)
  /\ FindIndex(events, 1) # 0 /\ FindIndex(events, 2) = 0
  /\ 2 \notin DOMAIN registrations
  /\ session[Member].token.kind = "jwt"
  /\ register(session[Member].token, 1).status = 400
  /\ register(session[Member].token, 2).status = 404
  /\ deleteEvent(session[Member].token, 1).status = 403
  /\ signupCheck(Member).status = 400
  /\ uploadMedia(NoToken, NoFile).status = 401

(* --------------------------- assigned defaults ------------------------- *)
\* Creates on Events and Messages of either build, with bodies that do and do
\* not carry the fields the server assigns.
CountedBodies == {Ugadi, [name |-> "Ugadi", registrations |-> 9]}
LikedBodies == {Question, Merge(Question, [read |-> TRUE, likes |-> 7])}

NextDefaults ==
  \/ Signin(BootEmail, "admin123")
  \/ \E t \in Credentials, b \in CountedBodies :
        Len(events) < RecordRoom /\ CreateEvent(t, b)
  \/ \E t \in Credentials, id \in Ids : DeleteEvent(t, id)
  \/ \E t \in Credentials : Register(t, 1)
  \/ \E b \in LikedBodies : Len(messages) < RecordRoom /\ Contact(b)
  \/ \E t \in Credentials, id \in Ids : MarkRead(t, id)
  \/ \E t \in Credentials, id \in Ids : DeleteMessage(t, id)

SpecDefaults == InitAny /\ [][NextDefaults]_vars

(* --------------------------------- C27 --------------------------------- *)
\* C27: a newly created event has registration count 0 and a newly created
\* message has read = false and likes = 0, whatever fields the request body
\* carries.
C27_DefaultsAssigned ==
  /\ \A t \in Credentials, b \in CountedBodies :
       createEvent(t, b).status = 200 =>
         Created(createEvent(t, b).db.events).registrations = 0
  /\ \A b \in LikedBodies :
       LET m == Created(contact(b).db.messages) IN
       /\ m.read = FALSE
       /\ Likes(m) = 0

====
